---- MODULE Spec2Model ----
(***************************************************************************)
(* AnalogInputService / AnalogInput of node-automation-hat                 *)
(* (src/src/io/analog-input.ts): the ADS1015 driver, its four channels and *)
(* the enable/disable lifecycle, with the i2c-bus transport and the light  *)
(* service as collaborators whose calls may each return or throw.          *)
(*                                                                         *)
(* The program is single threaded and synchronous, so every public method  *)
(* is one atomic action. Each action records what a caller and the mocks   *)
(* of the test suite can observe: the collaborator calls it made, in       *)
(* order (calls), and how it ended (outcome).                              *)
(***************************************************************************)
EXTENDS Integers, Sequences, FiniteSets, TLC

VARIABLES
    enabled,       \* AnalogInputService.enabled
    i2cBus,        \* AnalogInputService.i2cBus: Undefined or the handle openSync returned
    currentValue,  \* AnalogInput.currentValue of input1..input4, by channel 0..3
    lastCall,      \* the public method called last and its argument
    calls,         \* the collaborator calls that method made, in order
    outcome,       \* how it ended: returned (with a value or void) or threw
    openHandles,   \* transport: handles opened by openSync and not released
    closeCalls,    \* transport: closeSync calls since the last successful openSync
    now,           \* Date.now(), counted from the entry of the method that is running
    frame          \* the running readChannel: where it is, its channel, its start

vars == <<enabled, i2cBus, currentValue, lastCall, calls, outcome,
          openHandles, closeCalls, now, frame>>

\* The variables of a method that is followed step by step; the methods
\* taken as one step leave them alone.
stepVars == <<now, frame>>

----------------------------------------------------------------------------
(* Register addresses and configuration bits, analog-input.ts:5-20, 30.    *)

ADS1015_REG_CONVERSION == 0
ADS1015_REG_CONFIG == 1
\* 0x8000
ADS1015_CONFIG_OS_SINGLE == 32768
\* 0x4000
ADS1015_CONFIG_MUX_SINGLE_0 == 16384
\* 0x5000
ADS1015_CONFIG_MUX_SINGLE_1 == 20480
\* 0x6000
ADS1015_CONFIG_MUX_SINGLE_2 == 24576
\* 0x7000
ADS1015_CONFIG_MUX_SINGLE_3 == 28672
\* 0x0200
ADS1015_CONFIG_GAIN_ONE == 512
\* 0x0100
ADS1015_CONFIG_MODE_SINGLE == 256
\* 0x0080
ADS1015_CONFIG_DR_1600SPS == 128
ADS1015_CONFIG_CMODE_TRAD == 0
ADS1015_CONFIG_CPOL_ACTVLOW == 0
ADS1015_CONFIG_CLAT_NONLAT == 0
ADS1015_CONFIG_CQUE_NONE == 3
\* 0x48
address == 72
\* i2c.openSync(1)
busNumber == 1
\* const delay = 2
delay == 2
\* the two bytes of a register: writeI2cBlockSync(..., 2, ...), Buffer.alloc(2)
registerLength == 2

----------------------------------------------------------------------------
(* Bounds and input sets.                                                  *)

\* closeSync calls the model follows after one openSync (a close may fail
\* again and again; the guard of Disable stops there).
MaxCloseCalls == 2

\* Arguments given to readChannel: the four channels and the invalid
\* arguments of the spec and the test suite.
ChannelArgs == {-1, 0, 1, 2, 3, 4, 5}

\* The two bytes readI2cBlockSync puts in the buffer: 0x7FF0 (the value of
\* the test suite's transport) and 0xFFFF (the largest 16-bit value).
Buffers == { <<127, 240>>, <<255, 255>> }

----------------------------------------------------------------------------
(* JavaScript values and operators.                                        *)

Undefined == "undefined"
Handle == "I2CBus"

RECURSIVE BitOr(_, _)
\* a | b on non-negative integers
BitOr(a, b) ==
    IF a = 0 THEN b
    ELSE IF b = 0 THEN a
    ELSE (IF a % 2 = 1 \/ b % 2 = 1 THEN 1 ELSE 0) + 2 * BitOr(a \div 2, b \div 2)

RECURSIVE BitAnd(_, _)
\* a & b on non-negative integers
BitAnd(a, b) ==
    IF a = 0 \/ b = 0 THEN 0
    ELSE (IF a % 2 = 1 /\ b % 2 = 1 THEN 1 ELSE 0) + 2 * BitAnd(a \div 2, b \div 2)

\* a >> n and a << n on non-negative 32-bit integers that do not overflow
ShiftRight(a, n) == a \div (2 ^ n)
ShiftLeft(a, n) == a * (2 ^ n)

\* A method's completion.
Return(v) == [kind |-> "return", error |-> "", value |-> v]
Throw(e) == [kind |-> "throw", error |-> e, value |-> <<>>]
Void == <<>>

\* A public method called with its arguments.
Method(op, arg) == [op |-> op, arg |-> arg]

\* A call on a collaborator (the i2c-bus module, the bus handle, the light
\* service), and whether it threw.
Call(op, arg) == [op |-> op, arg |-> arg, threw |-> FALSE]
Failing(c) == [c EXCEPT !.threw = TRUE]
\* The error a collaborator call throws when it fails.
ErrorOf(c) == c.op \o " failed"

NotEnabledMessage == "AnalogInputService is not enabled. Call enable() first."
InvalidChannelMessage(channel) ==
    "Invalid channel: " \o ToString(channel) \o ". Must be 0-3."

\* No method is running.
Idle == [pc |-> "idle", channel |-> 0, rest |-> <<>>, start |-> 0]

\* The calls made of the sequence s when call number n throws (0: none
\* throws): control leaves the sequence at the call that throws.
UpTo(s, n) == IF n = 0 THEN s ELSE SubSeq(s, 1, n - 1) \o << Failing(s[n]) >>

----------------------------------------------------------------------------
Init ==
    /\ enabled = FALSE
    /\ i2cBus = Undefined
    /\ currentValue = [ch \in 0..3 |-> 0]
    /\ lastCall = Method("constructor", <<>>)
    /\ calls = <<>>
    /\ outcome = Return(Void)
    /\ openHandles = 0
    /\ closeCalls = 0
    /\ now = 0
    /\ frame = Idle

----------------------------------------------------------------------------
(* enable(), analog-input.ts:46-63.                                        *)

EnableCalls ==
    << Call("openSync", <<busNumber>>),
       Call("analogInput1.on", <<>>),
       Call("analogInput2.on", <<>>),
       Call("analogInput3.on", <<>>),
       Call("update", <<>>) >>

\* Mutant of EnableFields: the flag is set before the bus is opened.
EnableFieldsFlagFirst(bus, fail) ==
    IF fail = 1
    THEN [i2cBus |-> bus, enabled |-> TRUE]
    ELSE [i2cBus |-> Handle, enabled |-> TRUE]

\* What enable() on a disabled driver leaves in the fields when call number
\* fail of EnableCalls throws (0: none): a throwing openSync skips both
\* assignments of lines 51-52, anything later finds them done.
EnableFields(bus, fail) ==
    IF fail = 1
    THEN [i2cBus |-> bus, enabled |-> FALSE]
    ELSE [i2cBus |-> Handle, enabled |-> TRUE]

\* How enable() ends: whatever the try block throws is logged and rethrown.
EnableOutcome(fail) ==
    IF fail = 0 THEN Return(Void) ELSE Throw(ErrorOf(EnableCalls[fail]))

\* Mutant of Enable: the early return of line 47 is missing.
EnableUnguarded ==
    /\ lastCall' = Method("enable", <<>>)
    /\ UNCHANGED stepVars
    /\ UNCHANGED currentValue
    /\ \E fail \in 0..Len(EnableCalls) :
        /\ calls' = UpTo(EnableCalls, fail)
        /\ outcome' = EnableOutcome(fail)
        /\ i2cBus' = EnableFields(i2cBus, fail).i2cBus
        /\ enabled' = IF fail = 1 THEN enabled ELSE TRUE
        /\ openHandles' = IF fail # 1 THEN openHandles + 1 ELSE openHandles
        /\ closeCalls' = IF fail # 1 THEN 0 ELSE closeCalls

\* fail: which of EnableCalls throws (0: none).
Enable ==
    /\ lastCall' = Method("enable", <<>>)
    /\ UNCHANGED stepVars
    /\ UNCHANGED currentValue
    /\ IF enabled
       THEN /\ calls' = <<>>
            /\ outcome' = Return(Void)
            /\ UNCHANGED <<enabled, i2cBus, openHandles, closeCalls>>
       ELSE \E fail \in 0..Len(EnableCalls) :
            /\ calls' = UpTo(EnableCalls, fail)
            /\ outcome' = EnableOutcome(fail)
            /\ i2cBus' = EnableFields(i2cBus, fail).i2cBus
            /\ enabled' = EnableFields(i2cBus, fail).enabled
            /\ openHandles' = IF fail # 1 THEN openHandles + 1 ELSE openHandles
            /\ closeCalls' = IF fail # 1 THEN 0 ELSE closeCalls

----------------------------------------------------------------------------
(* disable(), analog-input.ts:68-86.                                       *)

DisableCalls(bus) ==
    (IF bus # Undefined THEN << Call("closeSync", <<>>) >> ELSE <<>>)
    \o << Call("analogInput1.off", <<>>),
          Call("analogInput2.off", <<>>),
          Call("analogInput3.off", <<>>),
          Call("update", <<>>) >>

\* Mutant of DisableFields: the flag is cleared whatever happens (as in a
\* finally block) while the handle is cleared only after a close that returned.
DisableFieldsFlagOnly(bus, fail) ==
    IF bus # Undefined /\ fail = 1
    THEN [i2cBus |-> bus, enabled |-> FALSE]
    ELSE [i2cBus |-> Undefined, enabled |-> FALSE]

\* Mutant of DisableFields: the flag is cleared at the end of the try block,
\* after the light calls.
DisableFieldsFlagLast(bus, fail) ==
    IF bus # Undefined /\ fail = 1
    THEN [i2cBus |-> bus, enabled |-> TRUE]
    ELSE [i2cBus |-> Undefined, enabled |-> (fail # 0)]

\* What disable() leaves in the fields when call number fail of
\* DisableCalls(bus) throws (0: none): a throwing closeSync skips both
\* assignments, anything later finds them done.
DisableFields(bus, fail) ==
    IF bus # Undefined /\ fail = 1
    THEN [i2cBus |-> bus, enabled |-> TRUE]
    ELSE [i2cBus |-> Undefined, enabled |-> FALSE]

\* Transport: the handles a disable() releases, of the open ones. closeSync
\* that returns has released the handle; closeSync that throws may or may
\* not have released it (the transport does not say, and the driver cannot
\* tell); a handle released before has nothing left to release.
Released(bus, fail, open) ==
    IF bus = Undefined \/ open = 0 THEN {0}
    ELSE IF fail = 1 THEN {0, 1}
    ELSE {1}

\* Mutant of DisableOutcome: the catch block rethrows, as enable()'s does.
DisableOutcomeRethrow(bus, fail) ==
    IF fail = 0 THEN Return(Void) ELSE Throw(ErrorOf(DisableCalls(bus)[fail]))

\* How disable() ends when call number fail throws: the catch block logs
\* and does not rethrow.
DisableOutcome(bus, fail) == Return(Void)

Disable ==
    /\ lastCall' = Method("disable", <<>>)
    /\ UNCHANGED stepVars
    /\ UNCHANGED currentValue
    /\ IF ~enabled
       THEN /\ calls' = <<>>
            /\ outcome' = Return(Void)
            /\ UNCHANGED <<enabled, i2cBus, openHandles, closeCalls>>
       ELSE /\ closeCalls < MaxCloseCalls
            /\ \E fail \in 0..Len(DisableCalls(i2cBus)) :
               /\ calls' = UpTo(DisableCalls(i2cBus), fail)
               /\ outcome' = DisableOutcome(i2cBus, fail)
               /\ i2cBus' = DisableFields(i2cBus, fail).i2cBus
               /\ enabled' = DisableFields(i2cBus, fail).enabled
               /\ closeCalls' = IF i2cBus # Undefined THEN closeCalls + 1
                                ELSE closeCalls
               /\ \E n \in Released(i2cBus, fail, openHandles) :
                     openHandles' = openHandles - n

----------------------------------------------------------------------------
(* readChannel(channel), analog-input.ts:107-162.                          *)

\* The flag groups OR-ed together before the mux is chosen, lines 113-120.
BaseConfig ==
    BitOr(ADS1015_CONFIG_CQUE_NONE,
    BitOr(ADS1015_CONFIG_CLAT_NONLAT,
    BitOr(ADS1015_CONFIG_CPOL_ACTVLOW,
    BitOr(ADS1015_CONFIG_CMODE_TRAD,
    BitOr(ADS1015_CONFIG_DR_1600SPS,
    BitOr(ADS1015_CONFIG_MODE_SINGLE,
    BitOr(ADS1015_CONFIG_GAIN_ONE,
          ADS1015_CONFIG_OS_SINGLE)))))))

\* The switch of lines 123-138; its default branch throws.
ValidChannel(channel) == channel \in {0, 1, 2, 3}

Config(channel) ==
    CASE channel = 0 -> BitOr(BaseConfig, ADS1015_CONFIG_MUX_SINGLE_0)
      [] channel = 1 -> BitOr(BaseConfig, ADS1015_CONFIG_MUX_SINGLE_1)
      [] channel = 2 -> BitOr(BaseConfig, ADS1015_CONFIG_MUX_SINGLE_2)
      [] channel = 3 -> BitOr(BaseConfig, ADS1015_CONFIG_MUX_SINGLE_3)

\* Mutant of ConfigBytes: low byte first.
ConfigBytesLowFirst(config) ==
    << BitAnd(config, 255), BitAnd(ShiftRight(config, 8), 255) >>

\* Buffer.from([(config >> 8) & 0xff, config & 0xff])
ConfigBytes(config) ==
    << BitAnd(ShiftRight(config, 8), 255), BitAnd(config, 255) >>

\* Mutant of Decode: the bytes are combined low byte first.
DecodeLowFirst(buffer) == ShiftRight(BitOr(ShiftLeft(buffer[2], 8), buffer[1]), 4)

\* (buffer[0] << 8) | buffer[1], then >> 4
Decode(buffer) == ShiftRight(BitOr(ShiftLeft(buffer[1], 8), buffer[2]), 4)

\* The transport calls of one conversion: the config write, the busy wait
\* (over once Date.now() - start >= delay) and the result read. The last
\* argument of the read is the buffer, zero-filled by Buffer.alloc(2).
ConversionCallsFor(channel) ==
    << Call("writeI2cBlockSync",
            <<address, ADS1015_REG_CONFIG, registerLength, ConfigBytes(Config(channel))>>),
       Call("busyWait", <<delay>>),
       Call("readI2cBlockSync",
            <<address, ADS1015_REG_CONVERSION, registerLength, <<0, 0>> >>) >>

\* The same, computed once per channel.
ConversionTable == [channel \in {0, 1, 2, 3} |-> ConversionCallsFor(channel)]
ConversionCalls(channel) == ConversionTable[channel]

\* What the transport does during one conversion: which of ConversionCalls
\* throws (0: none, 1: the write, 3: the read) and the bytes a read that
\* returns has put in the buffer. Buffer.alloc(2) is zero-filled.
EmptyBuffer == <<0, 0>>
Transfers ==
    { [fail |-> 0, buffer |-> b] : b \in Buffers }
    \cup { [fail |-> f, buffer |-> EmptyBuffer] : f \in {1, 3} }

\* The calls of a conversion in which none threw: the read has filled its
\* buffer argument with the bytes b.
Filled(s, b) == [s EXCEPT ![3].arg[4] = b]

\* Mutant of ReadChannelResult: the channel is validated before the enabled
\* check instead of after it.
ReadChannelResultValidateFirst(channel, t) ==
    IF ~ValidChannel(channel)
    THEN [calls |-> <<>>, outcome |-> Throw(InvalidChannelMessage(channel))]
    ELSE IF ~enabled \/ i2cBus = Undefined
    THEN [calls |-> <<>>, outcome |-> Throw(NotEnabledMessage)]
    ELSE [calls |-> IF t.fail = 0 THEN Filled(ConversionCalls(channel), t.buffer)
                    ELSE UpTo(ConversionCalls(channel), t.fail),
          outcome |-> IF t.fail = 0 THEN Return(<<Decode(t.buffer)>>)
                      ELSE Throw(ErrorOf(ConversionCalls(channel)[t.fail]))]

\* readChannel(channel) when the transport does t: the calls made and the
\* value returned or the error thrown.
ReadChannelResult(channel, t) ==
    IF ~enabled \/ i2cBus = Undefined
    THEN [calls |-> <<>>, outcome |-> Throw(NotEnabledMessage)]
    ELSE IF ~ValidChannel(channel)
    THEN [calls |-> <<>>, outcome |-> Throw(InvalidChannelMessage(channel))]
    ELSE [calls |-> IF t.fail = 0 THEN Filled(ConversionCalls(channel), t.buffer)
                    ELSE UpTo(ConversionCalls(channel), t.fail),
          outcome |-> IF t.fail = 0 THEN Return(<<Decode(t.buffer)>>)
                      ELSE Throw(ErrorOf(ConversionCalls(channel)[t.fail]))]

\* Mutant of ReadChannelDoing: readChannel itself stores the value in the
\* channel object.
ReadChannelStoring(channel, t) ==
    LET r == ReadChannelResult(channel, t) IN
    /\ lastCall' = Method("readChannel", <<channel>>)
    /\ UNCHANGED stepVars
    /\ calls' = r.calls
    /\ outcome' = r.outcome
    /\ currentValue' = IF r.outcome.kind = "return"
                       THEN [currentValue EXCEPT ![channel] = r.outcome.value[1]]
                       ELSE currentValue
    /\ UNCHANGED <<enabled, i2cBus, openHandles, closeCalls>>

\* service.readChannel(channel), called directly, when the transport does t.
ReadChannelDoing(channel, t) ==
    /\ lastCall' = Method("readChannel", <<channel>>)
    /\ UNCHANGED stepVars
    /\ calls' = ReadChannelResult(channel, t).calls
    /\ outcome' = ReadChannelResult(channel, t).outcome
    /\ UNCHANGED <<enabled, i2cBus, currentValue, openHandles, closeCalls>>

ReadChannel(channel) == \E t \in Transfers : ReadChannelDoing(channel, t)

----------------------------------------------------------------------------
(* AnalogInput.read(), analog-input.ts:203-206; input1..input4 are         *)
(* channels 0..3 (lines 37-40).                                            *)

\* Mutant of StoredValue: a failed read clears the cached value.
StoredValueClearedOnFailure(old, r) ==
    IF r.outcome.kind = "return" THEN r.outcome.value[1] ELSE 0

\* The channel's currentValue after read() whose readChannel ended as r:
\* the assignment of line 204 happens only when readChannel returned.
StoredValue(old, r) ==
    IF r.outcome.kind = "return" THEN r.outcome.value[1] ELSE old

\* input<ch+1>.read() when the transport does t.
ChannelReadDoing(ch, t) ==
    LET r == ReadChannelResult(ch, t) IN
    /\ lastCall' = Method("AnalogInput.read", <<ch>>)
    /\ UNCHANGED stepVars
    /\ calls' = r.calls
    /\ outcome' = r.outcome
    /\ currentValue' = [currentValue EXCEPT ![ch] = StoredValue(@, r)]
    /\ UNCHANGED <<enabled, i2cBus, openHandles, closeCalls>>

ChannelRead(ch) == \E t \in Transfers : ChannelReadDoing(ch, t)

----------------------------------------------------------------------------
(* The getters raw, voltage and percent, analog-input.ts:178-198.          *)
(* JavaScript numbers are modelled as exact fractions in lowest terms, so  *)
(* the getters are computed with the code's operations in the code's       *)
(* order, without the rounding of IEEE doubles.                            *)

RECURSIVE Gcd(_, _)
Gcd(a, b) == IF b = 0 THEN a ELSE Gcd(b, a % b)

\* The fraction n/d (n >= 0, d > 0) in lowest terms.
Frac(n, d) == [num |-> n \div Gcd(n, d), den |-> d \div Gcd(n, d)]
\* x / y and x * y
FracDiv(x, y) == Frac(x.num * y.den, x.den * y.num)
FracMul(x, y) == Frac(x.num * y.num, x.den * y.den)

\* The literals 2047.0, 4.096, 13 and 100.
FullScale == Frac(2047, 1)
ReferenceVoltage == Frac(4096, 1000)
DividerRatio == Frac(13, 1)
Hundred == Frac(100, 1)

\* get raw(): this.currentValue
Raw(value) == value

\* Mutant of Voltage: full scale taken as 2048.
VoltageFullScale2048(value) ==
    LET adcVoltage == FracMul(FracDiv(Frac(value, 1), Frac(2048, 1)), ReferenceVoltage)
    IN  FracMul(adcVoltage, DividerRatio)

\* get voltage(): adcVoltage = (this.currentValue / 2047.0) * 4.096, then
\* adcVoltage * 13
Voltage(value) ==
    LET adcVoltage == FracMul(FracDiv(Frac(value, 1), FullScale), ReferenceVoltage)
    IN  FracMul(adcVoltage, DividerRatio)

\* get percent(): (this.currentValue / 2047.0) * 100
Percent(value) == FracMul(FracDiv(Frac(value, 1), FullScale), Hundred)

Getters == {"raw", "voltage", "percent"}

\* input<ch+1>.raw, .voltage or .percent
Get(ch, prop) ==
    /\ lastCall' = Method(prop, <<ch>>)
    /\ UNCHANGED stepVars
    /\ calls' = <<>>
    /\ outcome' = CASE prop = "raw" -> Return(<< Raw(currentValue[ch]) >>)
                     [] prop = "voltage" -> Return(<< Voltage(currentValue[ch]) >>)
                     [] prop = "percent" -> Return(<< Percent(currentValue[ch]) >>)
    /\ UNCHANGED <<enabled, i2cBus, currentValue, openHandles, closeCalls>>

----------------------------------------------------------------------------
(* read(), analog-input.ts:91-100.                                         *)

\* What the transport does over the four conversions of one read(): nothing
\* more is asked of it after the first conversion that fails.
Unused == [fail |-> 0, buffer |-> EmptyBuffer]
Plans ==
    { p \in [0..3 -> Transfers \cup {Unused}] :
        \A k \in 0..3 :
            IF \E j \in 0..(k - 1) : p[j].fail # 0
            THEN p[k] = Unused
            ELSE p[k] \in Transfers }

RECURSIVE ReadInputsContinue(_, _, _, _)
\* Mutant of ReadInputs: a read() that throws is remembered and the remaining
\* channels are still read (failures aggregated).
ReadInputsContinue(k, cv, log, plan) ==
    IF k > 3
    THEN [currentValue |-> cv, calls |-> log, outcome |-> Return(Void)]
    ELSE LET r == ReadChannelResult(k, plan[k])
             rest == ReadInputsContinue(k + 1, [cv EXCEPT ![k] = StoredValue(@, r)],
                                        log \o r.calls, plan)
         IN  IF r.outcome.kind = "throw"
             THEN [rest EXCEPT !.outcome = r.outcome]
             ELSE rest

RECURSIVE ReadInputs(_, _, _, _)
\* input<k+1>.read(); ...; input4.read() from channel values cv with the
\* calls log made so far: stops at the first read() that throws.
ReadInputs(k, cv, log, plan) ==
    IF k > 3
    THEN [currentValue |-> cv, calls |-> log, outcome |-> Return(Void)]
    ELSE LET r == ReadChannelResult(k, plan[k]) IN
         IF r.outcome.kind = "throw"
         THEN [currentValue |-> cv, calls |-> log \o r.calls, outcome |-> r.outcome]
         ELSE ReadInputs(k + 1, [cv EXCEPT ![k] = StoredValue(@, r)],
                         log \o r.calls, plan)

Read ==
    /\ lastCall' = Method("read", <<>>)
    /\ UNCHANGED stepVars
    /\ UNCHANGED <<enabled, i2cBus, openHandles, closeCalls>>
    /\ IF ~enabled
       THEN /\ calls' = <<>>
            /\ outcome' = Throw(NotEnabledMessage)
            /\ UNCHANGED currentValue
       ELSE \E plan \in Plans :
            LET r == ReadInputs(0, currentValue, <<>>, plan) IN
            /\ calls' = r.calls
            /\ outcome' = r.outcome
            /\ currentValue' = r.currentValue

----------------------------------------------------------------------------
Next ==
    \/ Enable
    \/ Disable
    \/ Read
    \/ \E channel \in ChannelArgs : ReadChannel(channel)
    \/ \E ch \in 0..3 : ChannelRead(ch)
    \/ \E ch \in 0..3, prop \in Getters : Get(ch, prop)

Spec == Init /\ [][Next]_vars

----------------------------------------------------------------------------
(* The conversion of every 16-bit register value: enable(), then one       *)
(* input1.read() or readChannel(0) with the transport returning any two    *)
(* bytes, then the getters of input1 (the scenario of the test suite's     *)
(* 'should return correct raw value' and 'should handle different ADC      *)
(* values').                                                               *)

AllBuffers == { <<b0, b1>> : b0 \in 0..255, b1 \in 0..255 }

\* The state enable() leaves when every call returns.
InitConversion ==
    /\ enabled = TRUE
    /\ i2cBus = Handle
    /\ currentValue = [ch \in 0..3 |-> 0]
    /\ lastCall = Method("enable", <<>>)
    /\ calls = EnableCalls
    /\ outcome = Return(Void)
    /\ openHandles = 1
    /\ closeCalls = 0
    /\ now = 0
    /\ frame = Idle

ReadAny ==
    /\ lastCall.op = "enable"
    /\ \E b \in AllBuffers : ChannelReadDoing(0, [fail |-> 0, buffer |-> b])

ReadChannelAny ==
    /\ lastCall.op = "enable"
    /\ \E b \in AllBuffers : ReadChannelDoing(0, [fail |-> 0, buffer |-> b])

NextConversion ==
    \/ ReadAny
    \/ ReadChannelAny
    \/ \E prop \in Getters : Get(0, prop)

SpecConversion == InitConversion /\ [][NextConversion]_vars

(***************************************************************************)
(* readChannel() followed step by step.  The busy wait of lines 149-153    *)
(* polls Date.now() until the clock has moved on by `delay`; here the      *)
(* clock is a variable that advances between the polls, so a read has a    *)
(* position: before the wait it has written the configuration and taken    *)
(* `start`, after the wait it reads the conversion register.  The clock is *)
(* counted from the entry of the running method, since the code only ever  *)
(* looks at differences of Date.now() taken within one call.               *)
(***************************************************************************)

\* How far one advance of the clock can jump.
MaxTick == 2

\* How far the clock can run past the end of the wait before the loop polls.
MaxOvershoot == 1

Running == frame.pc # "idle"

Pending == [kind |-> "running", error |-> "", value |-> <<>>]

\* `while (Date.now() - start < delay)` has stopped looping, a mutation: the
\* loop is never entered.
WaitOverAtOnce(start, t) == TRUE

\* A mutation: the difference is taken the wrong way round.
WaitOverReversed(start, t) == ~(start - t < delay)

\* `while (Date.now() - start < delay)` has stopped looping.
WaitOver(start, t) == ~(t - start < delay)

\* readChannel(channel) up to `const start = Date.now()`: the guards, the
\* configuration written, the start of the wait taken. log holds the calls of
\* the running method so far, rest the channels read-all reads afterwards,
\* t what Date.now() returns.
StartConversion(channel, rest, log, writeFails, t) ==
    IF ~enabled \/ i2cBus = Undefined
    THEN [calls |-> log, outcome |-> Throw(NotEnabledMessage), frame |-> Idle]
    ELSE IF ~ValidChannel(channel)
    THEN [calls |-> log, outcome |-> Throw(InvalidChannelMessage(channel)),
          frame |-> Idle]
    ELSE IF writeFails
    THEN [calls |-> log \o << Failing(ConversionCalls(channel)[1]) >>,
          outcome |-> Throw(ErrorOf(ConversionCalls(channel)[1])),
          frame |-> Idle]
    ELSE [calls |-> log \o << ConversionCalls(channel)[1] >>,
          outcome |-> Pending,
          frame |-> [pc |-> "wait", channel |-> channel, rest |-> rest,
                     start |-> t]]

Started(r) ==
    /\ calls' = r.calls
    /\ outcome' = r.outcome
    /\ frame' = r.frame

\* A call of op(arg) enters readChannel(channel).
Begin(op, arg, channel, rest) ==
    /\ lastCall' = Method(op, arg)
    /\ now' = 0
    /\ \E writeFails \in BOOLEAN :
           Started(StartConversion(channel, rest, <<>>, writeFails, now'))
    /\ UNCHANGED <<enabled, i2cBus, currentValue, openHandles, closeCalls>>

BeginReadChannel(channel) ==
    /\ ~Running
    /\ Begin("readChannel", <<channel>>, channel, <<>>)

BeginChannelRead(ch) ==
    /\ ~Running
    /\ Begin("AnalogInput.read", <<ch>>, ch, <<>>)

BeginRead ==
    /\ ~Running
    /\ lastCall' = Method("read", <<>>)
    /\ now' = 0
    /\ IF ~enabled
       THEN /\ calls' = <<>>
            /\ outcome' = Throw(NotEnabledMessage)
            /\ frame' = Idle
       ELSE \E writeFails \in BOOLEAN :
                Started(StartConversion(0, <<1, 2, 3>>, <<>>, writeFails, now'))
    /\ UNCHANGED <<enabled, i2cBus, currentValue, openHandles, closeCalls>>

\* The clock advances while a method runs.
Tick ==
    /\ Running
    /\ \E d \in 1..MaxTick :
           /\ (now + d) - frame.start <= delay + MaxOvershoot
           /\ now' = now + d
    /\ UNCHANGED <<enabled, i2cBus, currentValue, lastCall, calls, outcome,
                   openHandles, closeCalls, frame>>

\* The poll that finds the wait over, and readChannel() from there: the
\* result read and decoded; then the caller, which stores the value and, in
\* read-all, enters readChannel() for the next channel.
EndWait ==
    /\ frame.pc = "wait"
    /\ WaitOver(frame.start, now)
    /\ \E t \in { x \in Transfers : x.fail # 1 } :
         LET waited == calls \o << ConversionCalls(frame.channel)[2] >>
             result == ConversionCalls(frame.channel)[3]
             value  == Decode(t.buffer)
             read   == waited \o << [result EXCEPT !.arg[4] = t.buffer] >>
             stored == IF lastCall.op = "readChannel" THEN currentValue
                       ELSE [currentValue EXCEPT ![frame.channel] =
                                StoredValue(@, [outcome |-> Return(<<value>>)])]
         IN  IF t.fail # 0
             THEN /\ calls' = waited \o << Failing(result) >>
                  /\ outcome' = Throw(ErrorOf(result))
                  /\ frame' = Idle
                  /\ currentValue' = currentValue
             ELSE /\ currentValue' = stored
                  /\ IF frame.rest = <<>>
                     THEN /\ calls' = read
                          /\ outcome' = IF lastCall.op = "read" THEN Return(Void)
                                        ELSE Return(<<value>>)
                          /\ frame' = Idle
                     ELSE \E writeFails \in BOOLEAN :
                              Started(StartConversion(Head(frame.rest),
                                          Tail(frame.rest), read, writeFails, now))
    /\ UNCHANGED <<enabled, i2cBus, lastCall, openHandles, closeCalls, now>>

InitSteps == Init \/ InitConversion

NextSteps ==
    \/ \E channel \in ChannelArgs : BeginReadChannel(channel)
    \/ \E ch \in 0..3 : BeginChannelRead(ch)
    \/ BeginRead
    \/ Tick
    \/ EndWait

\* The clock keeps advancing and the running method keeps being executed.
SpecSteps ==
    InitSteps /\ [][NextSteps]_vars /\ WF_vars(Tick) /\ WF_vars(EndWait)

----------------------------------------------------------------------------
(* Observations on the last method call.                                   *)

\* The names of the calls made, in order, restricted to the set ops.
Ops(ops) ==
    LET made == SelectSeq(calls, LAMBDA c : c.op \in ops)
    IN  [i \in 1..Len(made) |-> made[i].op]

\* The call op was made and threw.
Threw(op) == \E i \in 1..Len(calls) : calls[i].op = op /\ calls[i].threw

LightOps ==
    { "analogInput1.on", "analogInput2.on", "analogInput3.on",
      "analogInput1.off", "analogInput2.off", "analogInput3.off", "update" }
BusOps == { "openSync", "closeSync", "writeI2cBlockSync", "readI2cBlockSync" }

LightFailed == \E op \in LightOps : Threw(op)
TransportFailed == \E op \in BusOps : Threw(op)

\* s is a non-empty initial part of t.
IsPrefix(s, t) == Len(s) <= Len(t) /\ s = SubSeq(t, 1, Len(s))

----------------------------------------------------------------------------
(* Claims.                                                                 *)

\* C1: when closeSync throws inside disable() on an enabled driver, the error
\* is suppressed and, once disable() has returned, enabled is false.
\* The code does not do this: the assignment of line 76 is inside the try
\* block, after the close, and is skipped.
C1_DisableClearsEnabledOnCloseFailure ==
    (lastCall.op = "disable" /\ Threw("closeSync"))
        => (outcome = Return(Void) /\ enabled = FALSE)

\* C2: between operations, whatever the collaborators' calls did, the driver
\* holds a bus handle if and only if enabled is true.
C2_HandleIffEnabled == (i2cBus # Undefined) <=> (enabled = TRUE)

\* C2 witness: both sides after an enable() that threw at a light call, the
\* case where the caller saw an error and the driver is nevertheless enabled.
C2_Witness ==
    /\ lastCall.op = "enable"
    /\ LightFailed
    /\ enabled
    /\ i2cBus = Handle

\* C3: every channel's lastRaw stays an integer in [0, 2047], whatever two
\* bytes the transport returns. The code stores (b0 << 8 | b1) >> 4, which is
\* up to 4095.
C3_RawWithinRange == \A ch \in 0..3 : currentValue[ch] \in 0..2047

\* C4: every enable() that takes the driver from disabled to
\* enabled calls on() once on lights 1-3 and then update() once, every
\* disable() that takes it from enabled to disabled calls off() once on each
\* and then update() once, and a call that is a no-op makes no light call.
\* The code makes the transition before the light calls, inside the same try
\* block: a light call that throws leaves the driver switched with the
\* remaining light calls, and possibly update(), not made.
EnableLights == << "analogInput1.on", "analogInput2.on", "analogInput3.on", "update" >>
DisableLights == << "analogInput1.off", "analogInput2.off", "analogInput3.off", "update" >>

C4_LightsOncePerTransition ==
    [][ /\ (lastCall'.op = "enable" /\ ~enabled /\ enabled')
            => Ops(LightOps)' = EnableLights
        /\ (lastCall'.op = "disable" /\ enabled /\ ~enabled')
            => Ops(LightOps)' = DisableLights
        /\ (lastCall'.op \in {"enable", "disable"} /\ enabled' = enabled)
            => Ops(LightOps)' = <<>> ]_vars

\* C5: if openSync throws during enable(), the error reaches the caller and
\* nothing is left behind: enabled is false, no handle is held, no light call
\* was made.
C5_OpenFailureLeavesNoState ==
    (lastCall.op = "enable" /\ Threw("openSync"))
        => /\ outcome = Throw("openSync failed")
           /\ enabled = FALSE
           /\ i2cBus = Undefined
           /\ Ops(LightOps) = <<>>
           /\ openHandles = 0

\* C5 witness: an enable() whose openSync threw.
C5_Witness ==
    /\ lastCall.op = "enable"
    /\ Threw("openSync")
    /\ calls = << Failing(Call("openSync", <<1>>)) >>

\* C6: while the driver is not enabled, that is before the first enable()
\* that opened the bus and after any disable() completed since (the flag is
\* false, or closeSync has been called since the bus was last opened), read()
\* throws the 'not enabled' error, makes no bus call and leaves every
\* channel's value unchanged; while it is enabled and no transport call
\* throws, read() returns normally (after the four conversions). The code
\* accepts read() after a disable() whose closeSync threw, because that
\* disable() leaves the flag set (C1).
C6_ReadAllRequiresEnabled ==
    [][ lastCall'.op = "read" =>
          /\ (~enabled \/ closeCalls > 0) =>
               /\ outcome' = Throw("AnalogInputService is not enabled. Call enable() first.")
               /\ calls' = <<>>
               /\ currentValue' = currentValue
          /\ (enabled /\ closeCalls = 0 /\ ~TransportFailed') =>
               /\ outcome' = Return(Void)
               /\ Len(Ops({"writeI2cBlockSync"})') = 4
               /\ Len(Ops({"readI2cBlockSync"})') = 4 ]_vars

\* C7: on an enabled driver readChannel(c) with c outside 0..3 throws
\* 'Invalid channel: c. Must be 0-3.' without any bus write or read; on a
\* disabled driver readChannel throws the 'not enabled' error, whatever c,
\* also without any bus call.
InvalidChannelText ==
    [c \in {-1, 4, 5} |->
        CASE c = -1 -> "Invalid channel: -1. Must be 0-3."
          [] c = 4 -> "Invalid channel: 4. Must be 0-3."
          [] c = 5 -> "Invalid channel: 5. Must be 0-3."]

C7_ValidationPrecedesProtocol ==
    lastCall.op = "readChannel" =>
        /\ (enabled /\ lastCall.arg[1] \notin 0..3) =>
              /\ outcome = Throw(InvalidChannelText[lastCall.arg[1]])
              /\ calls = <<>>
        /\ ~enabled =>
              /\ outcome = Throw("AnalogInputService is not enabled. Call enable() first.")
              /\ calls = <<>>

\* C7 witness: readChannel(5) refused on an enabled driver.
C7_Witness ==
    /\ lastCall = Method("readChannel", <<5>>)
    /\ enabled
    /\ outcome.kind = "throw"

\* C8: enable() on an enabled driver is a no-op: no openSync, no light call,
\* no change of state; and openSync is never called while a handle is held,
\* so at most one handle is ever open.
C8_EnableIdempotent ==
    [][ /\ (lastCall'.op = "enable" /\ enabled) =>
              /\ calls' = <<>>
              /\ outcome' = Return(Void)
              /\ UNCHANGED <<enabled, i2cBus, currentValue, openHandles, closeCalls>>
        /\ Ops({"openSync"})' # <<>> => (i2cBus = Undefined /\ openHandles = 0)
        /\ openHandles' <= 1 ]_vars

\* C8 witness: a second enable() on a driver that holds the open handle.
C8_Witness ==
    /\ lastCall.op = "enable"
    /\ calls = <<>>
    /\ enabled
    /\ openHandles = 1

\* C9: disable() on a driver that is not enabled is a no-op, so repeated
\* disable() calls after one enable() call closeSync exactly once. The code
\* calls closeSync again on every disable() that follows one whose closeSync
\* threw, because that disable() left the driver enabled (C1).
C9_ClosedOncePerEnable == closeCalls <= 1

\* C10: disable() never throws, whether closeSync, an off() or update()
\* threw.
C10_DisableNeverThrows == lastCall.op = "disable" => outcome = Return(Void)

\* C10 witness: a disable() in which update(), the last call, threw.
C10_Witness ==
    /\ lastCall.op = "disable"
    /\ Threw("update")
    /\ ~enabled

----------------------------------------------------------------------------
(* Observations on the conversions of the last method call.                *)

\* The config writes and the result reads made, in order.
Writes == SelectSeq(calls, LAMBDA c : c.op = "writeI2cBlockSync")
Reads == SelectSeq(calls, LAMBDA c : c.op = "readI2cBlockSync")
\* The reads that returned.
GoodReads == SelectSeq(calls, LAMBDA c : c.op = "readI2cBlockSync" /\ ~c.threw)

\* The 16-bit word of two bytes, high byte first, and its 12-bit value.
WordOf(b) == b[1] * 256 + b[2]
RawOf(b) == WordOf(b) \div 16

\* The channel the i-th config write of the last call is for.
ChannelOfWrite(i) == IF lastCall.op = "read" THEN i - 1 ELSE lastCall.arg[1]

\* The protocol of n conversions: write, wait, read, n times.
RECURSIVE Protocol(_)
Protocol(n) ==
    IF n = 0 THEN <<>>
    ELSE Protocol(n - 1) \o << "writeI2cBlockSync", "busyWait", "readI2cBlockSync" >>

ConversionOps == { "writeI2cBlockSync", "busyWait", "readI2cBlockSync" }

\* C11: if an off() or update() call throws during disable() on an enabled
\* driver whose closeSync returned, disable() does not throw and the bus is
\* closed: closeSync was called once, the handle reference is cleared, the
\* handle is released and enabled is false.
C11_LightFailureLeavesBusClosed ==
    (lastCall.op = "disable" /\ LightFailed)
        => /\ outcome = Return(Void)
           /\ Ops({"closeSync"}) = << "closeSync" >>
           /\ ~Threw("closeSync")
           /\ i2cBus = Undefined
           /\ enabled = FALSE
           /\ openHandles = 0

\* C11 witness: a disable() whose second off() threw after the close.
C11_Witness ==
    /\ lastCall.op = "disable"
    /\ Threw("analogInput2.off")
    /\ calls[1].op = "closeSync"
    /\ ~enabled

\* C12: when input.read() throws (driver not enabled, or the bus write or
\* read threw), the caller gets the error as it was raised, the channel's
\* value is the one it had before the call, and nothing was retried: at most
\* one write and one read were made, the last of them the one that threw.
C12_FailedReadKeepsValue ==
    [][ (lastCall'.op = "AnalogInput.read" /\ outcome'.kind = "throw") =>
          /\ currentValue' = currentValue
          /\ ~enabled =>
               /\ outcome'.error = "AnalogInputService is not enabled. Call enable() first."
               /\ calls' = <<>>
          /\ enabled =>
               /\ Len(Writes') = 1
               /\ Len(Reads') <= 1
               /\ calls'[Len(calls')].threw
               /\ Threw("writeI2cBlockSync")' =>
                     (outcome'.error = "writeI2cBlockSync failed" /\ Len(calls') = 1)
               /\ Threw("readI2cBlockSync")' =>
                     (outcome'.error = "readI2cBlockSync failed" /\ Len(calls') = 3) ]_vars

\* C12 witness: a read() whose bus read threw, on a channel that keeps an
\* earlier value.
C12_Witness ==
    /\ lastCall.op = "AnalogInput.read"
    /\ Threw("readI2cBlockSync")
    /\ outcome.kind = "throw"
    /\ currentValue[lastCall.arg[1]] = 2047

\* C13: a channel's value changes only in a read() of that channel that
\* returned (called on the channel or through read-all), and then to the
\* value read; the getters, enable(), disable(), failed reads, reads of other
\* channels and a direct readChannel(n) leave it alone. The getters make no
\* bus call, and raw returns the cached value.
C13_ValueChangesOnlyOnOwnRead ==
    [][ /\ \A ch \in 0..3 :
            currentValue'[ch] # currentValue[ch] =>
                \/ /\ lastCall' = Method("AnalogInput.read", <<ch>>)
                   /\ outcome' = Return(<< currentValue'[ch] >>)
                \/ /\ lastCall'.op = "read"
                   /\ Len(GoodReads') > ch
                   /\ currentValue'[ch] = RawOf(GoodReads'[ch + 1].arg[4])
        /\ lastCall'.op \in Getters =>
              /\ calls' = <<>>
              /\ currentValue' = currentValue
              /\ outcome'.kind = "return"
        /\ lastCall'.op = "raw" =>
              outcome'.value[1] = currentValue[lastCall'.arg[1]] ]_vars

\* C13 witness: a direct readChannel(n) that returned a value other than the
\* one the channel keeps.
C13_Witness ==
    /\ lastCall.op = "readChannel"
    /\ outcome = Return(<< 4095 >>)
    /\ currentValue[lastCall.arg[1]] = 2047

\* C14: every config write goes to register 0x01 of device 0x48 with exactly
\* two bytes, high byte first, of the word 0x8000|0x0200|0x0100|0x0080|0x0003
\* (33667) OR-ed with the mux selector of its channel N, whose mux field
\* (bits 0x7000) is 0x4000 + N*0x1000; input1..input4 select N = 0..3.
C14_ConfigWord ==
    \A i \in 1..Len(Writes) :
        LET w == Writes[i]
            N == ChannelOfWrite(i)
        IN  /\ N \in 0..3
            /\ w.arg[1] = 72
            /\ w.arg[2] = 1
            /\ w.arg[3] = 2
            /\ Len(w.arg[4]) = 2
            /\ w.arg[4][1] \in 0..255 /\ w.arg[4][2] \in 0..255
            /\ WordOf(w.arg[4]) = 33667 + 16384 + N * 4096
            /\ ((WordOf(w.arg[4]) \div 4096) % 8) * 4096 = 16384 + N * 4096

\* C14 witness: input4.read() wrote 0xF3 0x83.
C14_Witness ==
    /\ lastCall = Method("AnalogInput.read", <<3>>)
    /\ Len(calls) >= 1
    /\ calls[1].op = "writeI2cBlockSync"
    /\ calls[1].arg[4] = <<243, 131>>

\* C15: the value readChannel returns is the two bytes read, combined high
\* byte first and divided by 16 rounding down (0x7FF0 gives 2047, 0x4000 gives
\* 1024, 0x2000 gives 512), and input.read() returns and caches that value.
C15_Decode ==
    (lastCall.op \in {"AnalogInput.read", "readChannel"} /\ outcome.kind = "return")
        => LET b == calls[Len(calls)].arg[4] IN
           /\ calls[Len(calls)].op = "readI2cBlockSync"
           /\ outcome.value = << (b[1] * 256 + b[2]) \div 16 >>
           /\ lastCall.op = "AnalogInput.read" =>
                 currentValue[lastCall.arg[1]] = (b[1] * 256 + b[2]) \div 16
           /\ b = <<127, 240>> => outcome.value = << 2047 >>
           /\ b = <<64, 0>> => outcome.value = << 1024 >>
           /\ b = <<32, 0>> => outcome.value = << 512 >>

\* C15 witness: input1.read() of 0x4000 returned and cached 1024.
C15_Witness ==
    /\ lastCall = Method("AnalogInput.read", <<0>>)
    /\ calls[Len(calls)].arg[4] = <<64, 0>>
    /\ outcome = Return(<< 1024 >>)
    /\ currentValue[0] = 1024

\* C16: a channel whose value is r in 0..2047 reports the voltage
\* (r/2047)*4.096*13 and the percentage (r/2047)*100 (53.248 V and 100 % at
\* 2047, 0 at 0), and percent is not clamped: it is above 100 exactly when
\* the value is above 2047. (Exact fractions; IEEE rounding is not modelled.)
C16_VoltageAndPercent ==
    LET r == currentValue[lastCall.arg[1]]
        v == outcome.value[1]
    IN  /\ lastCall.op = "voltage" =>
              /\ r \in 0..2047 => v = Frac(r * 4096 * 13, 2047 * 1000)
              /\ r = 2047 => v = Frac(53248, 1000)
              /\ r = 0 => v.num = 0
        /\ lastCall.op = "percent" =>
              /\ r \in 0..2047 => v = Frac(r * 100, 2047)
              /\ r = 2047 => v = Frac(100, 1)
              /\ r = 0 => v.num = 0
              /\ (v.num > 100 * v.den) <=> (r > 2047)

\* C16 witness: percent above 100 for a value above 2047.
C16_Witness ==
    /\ lastCall.op = "percent"
    /\ currentValue[0] = 4095
    /\ outcome.value[1].num > 100 * outcome.value[1].den

\* C18: read() on an enabled driver reads channels 0, 1, 2, 3 in that order,
\* each with the whole protocol; when the read of channel k throws, the error
\* reaches the caller at once, no call is made for the channels after k,
\* channel k and those after it keep their values and the channels before k
\* hold the values just read.
C18_ReadAllInOrder ==
    [][ (lastCall'.op = "read" /\ enabled) =>
          LET n == Len(GoodReads') IN
          /\ IsPrefix(Ops(ConversionOps)', Protocol(4))
          /\ Ops(BusOps \cup LightOps \cup ConversionOps)' = Ops(ConversionOps)'
          /\ \A i \in 1..Len(Writes') :
                WordOf(Writes'[i].arg[4]) = 33667 + 16384 + (i - 1) * 4096
          /\ \A ch \in 0..3 :
                currentValue'[ch] = IF ch < n THEN RawOf(GoodReads'[ch + 1].arg[4])
                                    ELSE currentValue[ch]
          /\ ~TransportFailed' => (n = 4 /\ outcome' = Return(Void))
          /\ TransportFailed' =>
                /\ n < 4
                /\ Len(Writes') = n + 1
                /\ calls'[Len(calls')].threw
                /\ outcome' = Throw(calls'[Len(calls')].op \o " failed") ]_vars

\* C18 witness: a read() whose third conversion failed at the bus read:
\* channels 0 and 1 hold the new values, channels 2 and 3 the old ones.
C18_Witness ==
    /\ lastCall.op = "read"
    /\ Threw("readI2cBlockSync")
    /\ Len(calls) = 9
    /\ currentValue = [ch \in 0..3 |-> IF ch < 2 THEN 4095 ELSE 2047]

\* C19: a bus write or read is only ever issued on a handle that is open:
\* after openSync returned it and before closeSync is next called on it, and
\* while the driver is enabled. The code keeps using the handle after a
\* disable() whose closeSync threw, because that disable() leaves the driver
\* enabled with the handle in place (C1).
C19_BusUsedOnlyWhileOpen ==
    (Writes # <<>> \/ Reads # <<>>)
        => /\ enabled
           /\ i2cBus = Handle
           /\ openHandles = 1
           /\ closeCalls = 0

\* C17: every conversion goes write-config, wait, read-result. The result is
\* read only by a readChannel() that is waiting, whose last bus call is its
\* configuration write, which returned, and only once the clock has advanced
\* by at least 2 since `start` was taken after that write; the step makes the
\* wait and then one 2-byte read of the conversion register. Nothing is put
\* on the bus while the wait lasts. A readChannel(N) with valid N on an
\* enabled driver ends having made exactly one write, and at most one read: no
\* read when the write threw, one read when it returned a value, and a call
\* that threw is the last call made (nothing is retried).
C17_WriteWaitRead ==
    [][ /\ Len(Reads') > Len(Reads) =>
              /\ frame.pc = "wait"
              /\ now - frame.start >= 2
              /\ calls # <<>>
              /\ calls[Len(calls)].op = "writeI2cBlockSync"
              /\ calls[Len(calls)].arg[2] = ADS1015_REG_CONFIG
              /\ ~calls[Len(calls)].threw
              /\ Len(Reads') = Len(Reads) + 1
              /\ Len(calls') >= Len(calls) + 2
              /\ SubSeq(calls', 1, Len(calls)) = calls
              /\ calls'[Len(calls) + 1].op = "busyWait"
              /\ calls'[Len(calls) + 2].op = "readI2cBlockSync"
              /\ calls'[Len(calls) + 2].arg[2] = ADS1015_REG_CONVERSION
              /\ calls'[Len(calls) + 2].arg[3] = 2
        /\ (frame.pc = "wait" /\ Len(Reads') = Len(Reads)) => calls' = calls
        /\ ( /\ lastCall'.op = "readChannel"
             /\ ~Running'
             /\ enabled /\ i2cBus # Undefined
             /\ ValidChannel(lastCall'.arg[1]) ) =>
              /\ Len(Writes') = 1
              /\ Len(Reads') <= 1
              /\ Threw("writeI2cBlockSync")' => Reads' = <<>>
              /\ outcome'.kind = "return" <=> (Len(GoodReads') = 1)
              /\ \A i \in 1..Len(calls') : calls'[i].threw => i = Len(calls') ]_vars

\* C17 witness: a readChannel() that returned a value after its write, its
\* wait of two clock units or more, and its read.
C17_Witness ==
    /\ lastCall.op = "readChannel"
    /\ ~Running
    /\ outcome.kind = "return"
    /\ now >= delay
    /\ Ops(ConversionOps) = << "writeI2cBlockSync", "busyWait", "readI2cBlockSync" >>

\* C20: with a clock that keeps advancing and bus calls that return or throw,
\* every readChannel(), Channel.read() and read-all that has started
\* terminates, and it has then returned or thrown.
C20_ReadsTerminate ==
    /\ [](~Running => outcome.kind \in {"return", "throw"})
    /\ (Running ~> ~Running)

\* C20 witness: a read-all that came back after the four waits.
C20_Witness ==
    /\ lastCall.op = "read"
    /\ ~Running
    /\ outcome = Return(Void)
    /\ Len(GoodReads) = 4
    /\ now >= 4 * delay

====
